---- MODULE Spec2Model ----
(***************************************************************************)
(* tutorials/algorithms/05_iqpe_from_vqe.ipynb: one run of the notebook,   *)
(* code cell after code cell, statement after statement.                   *)
(*                                                                         *)
(* Energies are integers in units of 1e-9 (Scale); a line printed with     *)
(* the format :.5f is an integer in units of 1e-5.  The calls into the     *)
(* quantum library are the environment of the notebook: the exact solver   *)
(* is computed (it is the minimum eigenvalue of a matrix), the variational *)
(* and the phase-estimation solver return a value chosen from a set.       *)
(***************************************************************************)
EXTENDS Integers, Sequences, FiniteSets, TLC

\* pc           the statement that runs next (see Statements)
\* err          <<>>, or <<s>> once statement s has raised
\* env          the notebook's variables: bound name -> value
\* tmp          the evaluated argument of the call in cell 5, <<>> otherwise
\* random_seed  the values assigned to aqua_globals.random_seed, in order;
\*              <<>> is the library's default (no seed)
\* out          the lines printed, each with its formatted number
\* calls        the calls of compute_minimum_eigenvalue made so far
\* log          the pipeline steps completed so far
VARIABLES pc, err, env, tmp, random_seed, out, calls, log

vars == <<pc, err, env, tmp, random_seed, out, calls, log>>

(***************************************************************************)
(* Fixed-point arithmetic.  A product of two energies does not fit a      *)
(* 32-bit integer, so squares are kept as little-endian limbs.             *)
(***************************************************************************)
Scale == 10^9
LimbBase == 10^4

Abs(x) == IF x < 0 THEN -x ELSE x

RECURSIVE Limbs(_)
Limbs(n) == IF n = 0 THEN <<>> ELSE <<n % LimbBase>> \o Limbs(n \div LimbBase)

LimbAt(a, k) == IF k \in 1..Len(a) THEN a[k] ELSE 0

RECURSIVE Carry(_, _)
Carry(a, c) ==
    IF a = <<>> THEN Limbs(c)
    ELSE <<(Head(a) + c) % LimbBase>> \o Carry(Tail(a), (Head(a) + c) \div LimbBase)

RECURSIVE SumTo(_, _)
SumTo(f, n) == IF n = 0 THEN 0 ELSE f[n] + SumTo(f, n - 1)

BigMul(x, y) ==
    LET a == Limbs(x)
        b == Limbs(y)
        conv == [k \in 1..(Len(a) + Len(b)) |->
                   SumTo([i \in 1..Len(a) |-> a[i] * LimbAt(b, k + 1 - i)], Len(a))]
    IN  Carry(conv, 0)

BigAdd(a, b) ==
    LET n == IF Len(a) > Len(b) THEN Len(a) ELSE Len(b)
    IN  Carry([k \in 1..n |-> LimbAt(a, k) + LimbAt(b, k)], 0)

RECURSIVE LeqFrom(_, _, _)
LeqFrom(a, b, k) ==
    IF k = 0 THEN TRUE
    ELSE IF LimbAt(a, k) # LimbAt(b, k) THEN LimbAt(a, k) < LimbAt(b, k)
    ELSE LeqFrom(a, b, k - 1)

BigLeq(a, b) == LeqFrom(a, b, IF Len(a) > Len(b) THEN Len(a) ELSE Len(b))

RECURSIVE Bisect(_, _, _)
Bisect(n, lo, hi) ==
    IF hi - lo <= 1 THEN lo
    ELSE LET mid == lo + (hi - lo) \div 2
         IN  IF BigLeq(BigMul(mid, mid), n) THEN Bisect(n, mid, hi) ELSE Bisect(n, lo, mid)

\* floor(sqrt(x^2 + y^2))
Hypot(x, y) ==
    Bisect(BigAdd(BigMul(Abs(x), Abs(x)), BigMul(Abs(y), Abs(y))), 0, 2 * Scale)

(***************************************************************************)
(* f'{x:.5f}': x in units of 1e-9, rounded half-even to units of 1e-5.     *)
(***************************************************************************)
Fmt5(x) ==
    LET m == Abs(x)
        q == m \div 10^4
        r == m % 10^4
        up == r > 5000 \/ (r = 5000 /\ q % 2 = 1)
        n == IF up THEN q + 1 ELSE q
    IN  IF x < 0 THEN -n ELSE n

(***************************************************************************)
(* Cell 2: the operator, a sum of Pauli terms on two qubits.  In           *)
(* `c * P ^ Q` the product binds first, (c * P) ^ Q, which is the term     *)
(* c (P (x) Q); P acts on qubit 1 and Q on qubit 0.                        *)
(***************************************************************************)
\* the operator with the sign of the ZI term lost
H2_op_terms_signflip ==
    << [coeff |-> -1052373246, pauli |-> <<"I", "I">>],
       [coeff |->   397937425, pauli |-> <<"I", "Z">>],
       [coeff |->   397937425, pauli |-> <<"Z", "I">>],
       [coeff |->   -11280104, pauli |-> <<"Z", "Z">>],
       [coeff |->   180931200, pauli |-> <<"X", "X">>] >>

H2_op_terms ==
    << [coeff |-> -1052373246, pauli |-> <<"I", "I">>],
       [coeff |->   397937425, pauli |-> <<"I", "Z">>],
       [coeff |->  -397937425, pauli |-> <<"Z", "I">>],
       [coeff |->   -11280104, pauli |-> <<"Z", "Z">>],
       [coeff |->   180931200, pauli |-> <<"X", "X">>] >>

PauliEntry(p, i, j) ==
    CASE p = "I" -> IF i = j THEN 1 ELSE 0
      [] p = "X" -> IF i # j THEN 1 ELSE 0
      [] p = "Z" -> IF i # j THEN 0 ELSE IF i = 0 THEN 1 ELSE -1

TermEntry(t, i, j) ==
    t.coeff * PauliEntry(t.pauli[1], i \div 2, j \div 2)
            * PauliEntry(t.pauli[2], i % 2, j % 2)

\* the 4x4 matrix of the operator, rows and columns 0..3
to_matrix(op) ==
    [i \in 0..3 |-> [j \in 0..3 |->
        SumTo([k \in 1..Len(op) |-> TermEntry(op[k], i, j)], Len(op))]]

\* A sum of II, IZ, ZI, ZZ, XX terms couples |00> with |11> and |01> with
\* |10> only: the matrix is two symmetric 2x2 blocks.
IsTwoBlocks(m) ==
    \A i \in {0, 3} : \A j \in {1, 2} : m[i][j] = 0 /\ m[j][i] = 0

\* the smaller eigenvalue of [[a, b], [b, d]]
BlockMinEigenvalue(a, b, d) ==
    (a + (d - a) \div 2) - Hypot((d - a) \div 2, b)

MinOf(x, y) == IF x <= y THEN x ELSE y

\* the largest eigenvalue taken for the smallest
MinEigenvalue_max(op) ==
    LET m == to_matrix(op)
        hi(a, b, d) == (a + (d - a) \div 2) + Hypot((d - a) \div 2, b)
        x == hi(m[0][0], m[0][3], m[3][3])
        y == hi(m[1][1], m[1][2], m[2][2])
    IN  [re |-> IF x >= y THEN x ELSE y, im |-> 0]

\* NumPyMinimumEigensolver.compute_minimum_eigenvalue(operator).eigenvalue
MinEigenvalue(op) ==
    LET m == to_matrix(op)
    IN  [re |-> MinOf(BlockMinEigenvalue(m[0][0], m[0][3], m[3][3]),
                      BlockMinEigenvalue(m[1][1], m[1][2], m[2][2])),
         im |-> 0]

(***************************************************************************)
(* The names bound in the kernel: env maps a bound name to its value, and  *)
(* a name is unbound until a statement assigns it.                         *)
(***************************************************************************)
Bind(e, name, value) ==
    [k \in (DOMAIN e) \cup {name} |-> IF k = name THEN value ELSE e[k]]

Bound(name) == name \in DOMAIN env

Running == err = <<>>

\* The statements of the code cells in execution order; pc is the statement
\* that runs next.
Statements ==
    << "import", "H2_op", "npme", "result", "ref_value", "print_ref",
       "seed", "var_form", "result_vqe", "print_vqe", "print_vqe_delta",
       "optimal_parameters", "vqe_state", "iqpe", "result_iqpe",
       "print_iqpe", "print_iqpe_delta", "version", "done" >>

\* the statements that call into the library, where an exception can come from
RaiseSites ==
    { "import", "H2_op", "npme", "result", "var_form", "result_vqe",
      "vqe_state", "iqpe", "result_iqpe", "version" }

(***************************************************************************)
(* What the two quantum solvers may return.                                *)
(***************************************************************************)
NumParamVectors == 2
GridHalf == 6
GridStep == 999

\* optimal_parameters: one of a few parameter vectors; InitialPoint is the
\* vector the optimizer starts from
ParamVectors == 1..NumParamVectors
InitialPoint == 0

\* any solver outcome
SolverEnergies == {-1857275000, -1849170000, -1740630000, -1000000000}

\* the outcomes recorded in the notebook's outputs, in units of 1e-5
RecordedVQE == -174063
RecordedIQPE == -184917

\* the eigenvalues that print as the recorded line
PrintsAs(line) ==
    { v \in { line * 10^4 + k * GridStep : k \in (-GridHalf)..GridHalf } : Fmt5(v) = line }

(***************************************************************************)
(* The record of a call of compute_minimum_eigenvalue: its arguments, the  *)
(* seed in force, and what it returned (<<>> when it raised).              *)
(***************************************************************************)
CallExact(ret) ==
    [solver |-> "npme", operator |-> env["H2_op"], seed |-> random_seed,
     var_form |-> <<>>, state_in |-> <<>>, returned |-> ret]

CallVQE(ret) ==
    [solver |-> "vqe", operator |-> env["H2_op"], seed |-> random_seed,
     var_form |-> <<env["vqe"].var_form>>, state_in |-> <<>>, returned |-> ret]

CallIQPE(ret) ==
    [solver |-> "iqpe", operator |-> env["H2_op"], seed |-> random_seed,
     var_form |-> <<>>, state_in |-> <<env["iqpe"].state_in>>, returned |-> ret]

Init ==
    /\ pc = "import"
    /\ err = <<>>
    /\ env = <<>>
    /\ tmp = <<>>
    /\ random_seed = <<>>
    /\ out = <<>>
    /\ calls = <<>>
    /\ log = <<>>

\* cell 1
Import ==
    /\ Running /\ pc = "import"
    /\ pc' = "H2_op"
    /\ UNCHANGED <<err, env, tmp, random_seed, out, calls, log>>

\* cell 2
BuildOperator ==
    /\ Running /\ pc = "H2_op"
    /\ env' = Bind(env, "H2_op", H2_op_terms)
    /\ log' = Append(log, "operator")
    /\ pc' = "npme"
    /\ UNCHANGED <<err, tmp, random_seed, out, calls>>

\* cell 3
NewNPME ==
    /\ Running /\ pc = "npme"
    /\ env' = Bind(env, "npme", [class |-> "NumPyMinimumEigensolver"])
    /\ pc' = "result"
    /\ UNCHANGED <<err, tmp, random_seed, out, calls, log>>

\* a solver that strips the identity term from the operator it is given
ExactSolve_inplace ==
    /\ Running /\ pc = "result"
    /\ Bound("npme") /\ Bound("H2_op")
    /\ IsTwoBlocks(to_matrix(env["H2_op"]))
    /\ LET r == [kind |-> "exact", eigenvalue |-> MinEigenvalue(env["H2_op"])]
       IN  /\ env' = Bind(Bind(env, "result", r), "H2_op", Tail(env["H2_op"]))
           /\ calls' = Append(calls, CallExact(<<r>>))
    /\ pc' = "ref_value"
    /\ UNCHANGED <<err, tmp, random_seed, out, log>>

ExactSolve ==
    /\ Running /\ pc = "result"
    /\ Bound("npme") /\ Bound("H2_op")
    /\ IsTwoBlocks(to_matrix(env["H2_op"]))
    /\ LET r == [kind |-> "exact", eigenvalue |-> MinEigenvalue(env["H2_op"])]
       IN  /\ env' = Bind(env, "result", r)
           /\ calls' = Append(calls, CallExact(<<r>>))
    /\ pc' = "ref_value"
    /\ UNCHANGED <<err, tmp, random_seed, out, log>>

ReadRef ==
    /\ Running /\ pc = "ref_value"
    /\ Bound("result")
    /\ env' = Bind(env, "ref_value", env["result"].eigenvalue.re)
    /\ log' = Append(log, "reference")
    /\ pc' = "print_ref"
    /\ UNCHANGED <<err, tmp, random_seed, out, calls>>

PrintRef ==
    /\ Running /\ pc = "print_ref"
    /\ Bound("ref_value")
    /\ out' = Append(out, [text |-> "Reference value",
                           value |-> Fmt5(env["ref_value"])])
    /\ pc' = "seed"
    /\ UNCHANGED <<err, env, tmp, random_seed, calls, log>>

\* cell 4
\* the seed kept in the notebook's variable only
SetSeed_local ==
    /\ Running /\ pc = "seed"
    /\ env' = Bind(env, "seed", 5)
    /\ pc' = "var_form"
    /\ UNCHANGED <<err, tmp, random_seed, out, calls, log>>

SetSeed ==
    /\ Running /\ pc = "seed"
    /\ env' = Bind(env, "seed", 5)
    /\ random_seed' = Append(random_seed, env'["seed"])
    /\ pc' = "var_form"
    /\ UNCHANGED <<err, tmp, out, calls, log>>

ConfigureVQE ==
    /\ Running /\ pc = "var_form"
    /\ Bound("seed")
    /\ LET vf == [class |-> "TwoLocal", rotation_blocks |-> <<"ry", "rz">>,
                  entanglement_blocks |-> "cz", reps |-> 3]
           opt == [class |-> "SPSA", maxiter |-> 10]
           q == [backend |-> "qasm_simulator", shots |-> 1024,
                 seed_simulator |-> env["seed"], seed_transpiler |-> env["seed"]]
           v == [class |-> "VQE", var_form |-> vf, optimizer |-> opt,
                 quantum_instance |-> q]
       IN  env' = Bind(Bind(Bind(Bind(Bind(env, "var_form", vf), "spsa", opt),
                                 "backend", "qasm_simulator"), "qi", q), "vqe", v)
    /\ pc' = "result_vqe"
    /\ UNCHANGED <<err, tmp, random_seed, out, calls, log>>

\* the VQE cell run a second time, after the IQPE cell
RunVQE_again(energies) ==
    /\ Running /\ pc \in {"result_vqe", "version"}
    /\ Bound("vqe") /\ Bound("H2_op")
    /\ \E e \in energies : \E p \in ParamVectors :
         LET r == [kind |-> "vqe", eigenvalue |-> [re |-> e, im |-> 0],
                   optimal_parameters |-> p]
         IN  /\ env' = Bind(env, "result_vqe", r)
             /\ calls' = Append(calls, CallVQE(<<r>>))
    /\ log' = Append(log, "vqe")
    /\ pc' = IF pc = "version" THEN "done" ELSE "print_vqe"
    /\ UNCHANGED <<err, tmp, random_seed, out>>

RunVQE(energies) ==
    /\ Running /\ pc = "result_vqe"
    /\ Bound("vqe") /\ Bound("H2_op")
    /\ \E e \in energies : \E p \in ParamVectors :
         LET r == [kind |-> "vqe", eigenvalue |-> [re |-> e, im |-> 0],
                   optimal_parameters |-> p]
         IN  /\ env' = Bind(env, "result_vqe", r)
             /\ calls' = Append(calls, CallVQE(<<r>>))
    /\ log' = Append(log, "vqe")
    /\ pc' = "print_vqe"
    /\ UNCHANGED <<err, tmp, random_seed, out>>

PrintVQE ==
    /\ Running /\ pc = "print_vqe"
    /\ Bound("result_vqe")
    /\ out' = Append(out, [text |-> "VQE estimated the ground energy to be",
                           value |-> Fmt5(env["result_vqe"].eigenvalue.re)])
    /\ pc' = "print_vqe_delta"
    /\ UNCHANGED <<err, env, tmp, random_seed, calls, log>>

PrintVQEDelta ==
    /\ Running /\ pc = "print_vqe_delta"
    /\ Bound("result_vqe") /\ Bound("ref_value")
    /\ out' = Append(out, [text |-> "Delta from reference energy value is",
                           value |-> Fmt5(env["result_vqe"].eigenvalue.re
                                          - env["ref_value"])])
    /\ log' = Append(log, "deltas")
    /\ pc' = "optimal_parameters"
    /\ UNCHANGED <<err, env, tmp, random_seed, calls>>

\* cell 5: the argument is evaluated, then the constructor is called
\* the parameters the optimizer started from, not those it ended with
ReadOptimalParameters_initial ==
    /\ Running /\ pc = "optimal_parameters"
    /\ Bound("var_form") /\ Bound("result_vqe")
    /\ "optimal_parameters" \in DOMAIN env["result_vqe"]
    /\ tmp' = <<InitialPoint>>
    /\ log' = Append(log, "params")
    /\ pc' = "vqe_state"
    /\ UNCHANGED <<err, env, random_seed, out, calls>>

ReadOptimalParameters ==
    /\ Running /\ pc = "optimal_parameters"
    /\ Bound("var_form") /\ Bound("result_vqe")
    /\ "optimal_parameters" \in DOMAIN env["result_vqe"]
    /\ tmp' = <<env["result_vqe"].optimal_parameters>>
    /\ log' = Append(log, "params")
    /\ pc' = "vqe_state"
    /\ UNCHANGED <<err, env, random_seed, out, calls>>

BuildInitialState ==
    /\ Running /\ pc = "vqe_state"
    /\ tmp # <<>>
    /\ env' = Bind(env, "vqe_state", [class |-> "VarFormBased",
                                      var_form |-> env["var_form"],
                                      params |-> tmp[1]])
    /\ tmp' = <<>>
    /\ log' = Append(log, "initial_state")
    /\ pc' = "iqpe"
    /\ UNCHANGED <<err, random_seed, out, calls>>

\* cell 6
ConfigureIQPE ==
    /\ Running /\ pc = "iqpe"
    /\ Bound("backend") /\ Bound("seed") /\ Bound("vqe_state")
    /\ LET q == [backend |-> env["backend"], shots |-> 100,
                 seed_simulator |-> env["seed"], seed_transpiler |-> env["seed"]]
           i == [class |-> "IQPE", state_in |-> env["vqe_state"],
                 num_time_slices |-> 1, num_iterations |-> 6,
                 expansion_mode |-> "suzuki", expansion_order |-> 2,
                 quantum_instance |-> q]
       IN  env' = Bind(Bind(env, "qi", q), "iqpe", i)
    /\ pc' = "result_iqpe"
    /\ UNCHANGED <<err, tmp, random_seed, out, calls, log>>

\* result_iqpe = ... alone: result_vqe keeps the VQE result
RunIQPE_norebind(energies) ==
    /\ Running /\ pc = "result_iqpe"
    /\ Bound("iqpe") /\ Bound("H2_op")
    /\ \E e \in energies :
         LET r == [kind |-> "iqpe", eigenvalue |-> [re |-> e, im |-> 0]]
         IN  /\ env' = Bind(env, "result_iqpe", r)
             /\ calls' = Append(calls, CallIQPE(<<r>>))
    /\ log' = Append(log, "iqpe")
    /\ pc' = "print_iqpe"
    /\ UNCHANGED <<err, tmp, random_seed, out>>

\* result_iqpe = result_vqe = ...: both names are bound to the one result
RunIQPE(energies) ==
    /\ Running /\ pc = "result_iqpe"
    /\ Bound("iqpe") /\ Bound("H2_op")
    /\ \E e \in energies :
         LET r == [kind |-> "iqpe", eigenvalue |-> [re |-> e, im |-> 0]]
         IN  /\ env' = Bind(Bind(env, "result_iqpe", r), "result_vqe", r)
             /\ calls' = Append(calls, CallIQPE(<<r>>))
    /\ log' = Append(log, "iqpe")
    /\ pc' = "print_iqpe"
    /\ UNCHANGED <<err, tmp, random_seed, out>>

PrintIQPE ==
    /\ Running /\ pc = "print_iqpe"
    /\ Bound("result_iqpe")
    /\ out' = Append(out, [text |-> "Continuing with VQE's result, IQPE estimated the ground energy to be",
                           value |-> Fmt5(env["result_iqpe"].eigenvalue.re)])
    /\ pc' = "print_iqpe_delta"
    /\ UNCHANGED <<err, env, tmp, random_seed, calls, log>>

PrintIQPEDelta ==
    /\ Running /\ pc = "print_iqpe_delta"
    /\ Bound("result_iqpe") /\ Bound("ref_value")
    /\ out' = Append(out, [text |-> "Delta from reference energy value is",
                           value |-> Fmt5(env["result_iqpe"].eigenvalue.re
                                          - env["ref_value"])])
    /\ log' = Append(log, "deltas")
    /\ pc' = "version"
    /\ UNCHANGED <<err, env, tmp, random_seed, calls>>

\* cell 7
VersionTable ==
    /\ Running /\ pc = "version"
    /\ pc' = "done"
    /\ UNCHANGED <<err, env, tmp, random_seed, out, calls, log>>

\* the statement wrapped in try/except: the exception is dropped and the run
\* goes on with the next statement
Raise_swallowed ==
    /\ Running /\ pc \in RaiseSites
    /\ pc = "result" => Bound("npme") /\ Bound("H2_op")
    /\ pc = "result_vqe" => Bound("vqe") /\ Bound("H2_op")
    /\ pc = "result_iqpe" => Bound("iqpe") /\ Bound("H2_op")
    /\ pc' = Statements[(CHOOSE n \in 1..Len(Statements) : Statements[n] = pc) + 1]
    /\ calls' = CASE pc = "result" -> Append(calls, CallExact(<<>>))
                  [] pc = "result_vqe" -> Append(calls, CallVQE(<<>>))
                  [] pc = "result_iqpe" -> Append(calls, CallIQPE(<<>>))
                  [] OTHER -> calls
    /\ UNCHANGED <<err, env, tmp, random_seed, out, log>>

\* No statement is inside a try: an exception raised by a library call ends
\* the run at that statement.
Raise ==
    /\ Running /\ pc \in RaiseSites
    /\ err' = <<pc>>
    /\ calls' = CASE pc = "result" -> Append(calls, CallExact(<<>>))
                  [] pc = "result_vqe" -> Append(calls, CallVQE(<<>>))
                  [] pc = "result_iqpe" -> Append(calls, CallIQPE(<<>>))
                  [] OTHER -> calls
    /\ UNCHANGED <<pc, env, tmp, random_seed, out, log>>

Steps ==
    \/ Import \/ BuildOperator \/ NewNPME \/ ExactSolve \/ ReadRef \/ PrintRef
    \/ SetSeed \/ ConfigureVQE \/ PrintVQE \/ PrintVQEDelta
    \/ ReadOptimalParameters \/ BuildInitialState \/ ConfigureIQPE
    \/ PrintIQPE \/ PrintIQPEDelta \/ VersionTable \/ Raise

\* a run in which the two quantum solvers may return anything
Next == Steps \/ RunVQE(SolverEnergies) \/ RunIQPE(SolverEnergies)

Spec == Init /\ [][Next]_vars

\* the run whose outputs the notebook records
NextRecorded == Steps \/ RunVQE(PrintsAs(RecordedVQE)) \/ RunIQPE(PrintsAs(RecordedIQPE))

SpecRecorded == Init /\ [][NextRecorded]_vars

(***************************************************************************)
(* Properties.                                                             *)
(***************************************************************************)
IsPrefix(s, t) == Len(s) <= Len(t) /\ \A i \in 1..Len(s) : s[i] = t[i]

NotDeltas(step) == step # "deltas"

DeltaText == "Delta from reference energy value is"

SevenSteps ==
    <<"operator", "reference", "vqe", "params", "initial_state", "iqpe", "deltas">>

SixSteps == SubSeq(SevenSteps, 1, 6)

\* how many print statements come before statement number n
RECURSIVE PrintsBefore(_)
PrintsBefore(n) ==
    IF n <= 1 THEN 0
    ELSE PrintsBefore(n - 1)
         + (IF Statements[n - 1] \in {"print_ref", "print_vqe", "print_vqe_delta",
                                      "print_iqpe", "print_iqpe_delta"} THEN 1 ELSE 0)

StatementNumber(p) == CHOOSE n \in 1..Len(Statements) : Statements[n] = p

\* C1 as stated: the steps completed so far are the first steps of the
\* seven-step order (operator, reference, VQE, parameters, initial state,
\* IQPE, deltas), each at most once, the deltas last.
C1_SevenStepOrder == IsPrefix(log, SevenSteps)

\* C1 amended: steps (1)-(6) complete in the fixed order, each at most once;
\* a delta is printed directly after VQE returned and again directly after
\* IQPE returned, never before the reference value is computed; IQPE is not
\* invoked before VQE has returned.
C1_StepOrder ==
    /\ IsPrefix(SelectSeq(log, NotDeltas), SixSteps)
    /\ \A i \in 1..Len(log) :
         log[i] = "deltas" =>
           /\ i > 1 /\ log[i - 1] \in {"vqe", "iqpe"}
           /\ \E j \in 1..(i - 1) : log[j] = "reference"
    /\ \A i \in 1..Len(calls) :
         calls[i].solver = "iqpe" =>
           \E j \in 1..(i - 1) : calls[j].solver = "vqe" /\ calls[j].returned # <<>>
    /\ \A k \in 1..Len(out) : out[k].text = DeltaText => Bound("ref_value")

C1_Witness ==
    /\ pc = "done"
    /\ log = <<"operator", "reference", "vqe", "deltas", "params",
               "initial_state", "iqpe", "deltas">>

C3_StateInFromVQE ==
    \A i \in 1..Len(calls) :
       calls[i].solver = "iqpe" =>
         \E j \in 1..(i - 1) :
            /\ calls[j].solver = "vqe" /\ calls[j].returned # <<>>
            /\ calls[i].state_in =
                 << [class |-> "VarFormBased",
                     var_form |-> calls[j].var_form[1],
                     params |-> calls[j].returned[1].optimal_parameters] >>

C3_Witness ==
    /\ pc = "print_iqpe"
    /\ calls[3].solver = "iqpe"
    /\ calls[3].state_in[1].params = NumParamVectors

\* C4: the reference value is -1.85728 to five decimals: it lies within half
\* a unit of the fifth decimal of -1.85728, the exact solver's eigenvalue has
\* no imaginary part, and the line printed for it reads -1.85728.
C4_ReferenceValue ==
    /\ Bound("ref_value") =>
         /\ Abs(env["ref_value"] + 1857280000) <= 5000
         /\ env["result"].eigenvalue = [re |-> env["ref_value"], im |-> 0]
    /\ \A k \in 1..Len(out) :
         out[k].text = "Reference value" => out[k].value = -185728

C4_Witness ==
    /\ random_seed = <<5>>
    /\ Len(out) >= 1 /\ out[1].text = "Reference value"
    /\ calls[1].solver = "npme" /\ calls[1].returned # <<>>

\* C7: a raised exception halts the run at the statement that raised it:
\* the run stays there, a call that raised is the last call made, the lines
\* printed are those of the print statements before the current statement,
\* after a VQE failure there is no IQPE object, call, result or line, and no
\* step is ever taken from a halted state.
C7_Halted ==
    /\ Len(out) = PrintsBefore(StatementNumber(pc))
    /\ \A i \in 1..Len(calls) :
         calls[i].returned = <<>> => i = Len(calls) /\ err # <<>>
    /\ err # <<>> => pc = err[1] /\ pc \in RaiseSites
    /\ err = <<"result_vqe">> =>
         /\ ~Bound("result_vqe") /\ ~Bound("vqe_state")
         /\ ~Bound("iqpe") /\ ~Bound("result_iqpe")
         /\ \A i \in 1..Len(calls) : calls[i].solver # "iqpe"
         /\ Len(out) = 1

C7_NoFailureCaught == []C7_Halted /\ [][Running]_vars

C7_Witness ==
    /\ err = <<"result_vqe">>
    /\ Len(calls) = 2 /\ calls[2].solver = "vqe" /\ calls[2].returned = <<>>

\* C8 as stated: every solver invocation, the exact solver's included, is
\* made with the random seed already assigned to 5.
C8_SeedBeforeAnySolver ==
    \A i \in 1..Len(calls) : calls[i].seed = <<5>>

\* C8 amended: the random seed is assigned at most once in a run and exactly
\* once in a run that completes, to 5; the assignment comes after the exact
\* solver has been invoked and before VQE and IQPE are invoked, and the seed
\* is never assigned again.
C8_SeedOnce ==
    /\ random_seed \in {<<>>, <<5>>}
    /\ pc = "done" => random_seed = <<5>>
    /\ \A i \in 1..Len(calls) :
         /\ calls[i].solver \in {"vqe", "iqpe"} => calls[i].seed = <<5>>
         /\ calls[i].solver = "npme" => calls[i].seed = <<>>
    /\ random_seed # <<>> => Len(calls) >= 1 /\ calls[1].solver = "npme"

C8_Witness ==
    /\ pc = "done"
    /\ random_seed = <<5>>
    /\ Len(calls) = 3 /\ calls[2].seed = <<5>> /\ calls[3].seed = <<5>>

\* C9: once bound, H2_op is the operator of the five literal terms in every
\* later state, and every solver call receives exactly that operator.
C9_OperatorFixed ==
    /\ Bound("H2_op") => env["H2_op"] = H2_op_terms
    /\ \A i \in 1..Len(calls) : calls[i].operator = H2_op_terms

C9_Witness ==
    /\ pc = "done"
    /\ {calls[i].solver : i \in 1..Len(calls)} = {"npme", "vqe", "iqpe"}

\* the statements at which result_vqe holds the result of VQE
VQEWindow ==
    {"print_vqe", "print_vqe_delta", "optimal_parameters", "vqe_state",
     "iqpe", "result_iqpe"}

\* C10: once result_iqpe is bound, result_vqe and result_iqpe are the same
\* IQPE result, which has no optimal_parameters; result_vqe holds a VQE
\* result exactly from the return of VQE to the return of IQPE, and that is
\* where optimal_parameters is read.
C10_Rebinding ==
    /\ Bound("result_iqpe") =>
         /\ Bound("result_vqe")
         /\ env["result_vqe"].kind = "iqpe"
         /\ env["result_iqpe"].kind = "iqpe"
         /\ env["result_vqe"] = env["result_iqpe"]
         /\ "optimal_parameters" \notin DOMAIN env["result_vqe"]
    /\ (Bound("result_vqe") /\ env["result_vqe"].kind = "vqe") <=> pc \in VQEWindow
    /\ tmp # <<>> => pc = "vqe_state" /\ tmp[1] = env["result_vqe"].optimal_parameters

C10_Witness ==
    /\ pc = "done"
    /\ env["result_vqe"].kind = "iqpe"
    /\ Bound("vqe_state")

====
